---- MODULE Spec2Model ----
(***************************************************************************)
(* A model of natcap.testing: the sample-data helpers of sampledata.py and *)
(* the test utilities of utils.py.  Two specifications share the state:    *)
(*   Spec    the library calls that do not depend on directory contents    *)
(*           (make_geotransform, build_srs, raster, vector, get_hash, the   *)
(*           regression decorator, build_regression_archives);             *)
(*   SpecFS  the calls whose contract is about directory trees (cleanup,   *)
(*           the save_workspace decorator).                                *)
(* Every call leaves the sequence of external calls it made in log and its *)
(* return value or the name of the exception it raised in result.          *)
(***************************************************************************)
EXTENDS Integers, Sequences, FiniteSets, TLC

VARIABLES op, pc, args, loc, log, result, fs

vars == <<op, pc, args, loc, log, result, fs>>

\* ------------------------------------------------------------------ bounds
\* Number of distinct entry names a directory may hold.
NumNames == 1

Names == 1..NumNames

None == "None"

\* An optional argument: left out (None), or given.
NoArg == {}

Given(x) == {x}

ValueOf(o) == CHOOSE x \in o : TRUE

\* How a call ended: with a return value, or with an exception.
Returned(v) == [raised |-> "none", value |-> v]

Raised(e) == [raised |-> e, value |-> None]

\* ------------------------------------------------- the filesystem (os, shutil)
\* A directory tree below one root: every relative path of at most two
\* components is absent ("none"), a regular file or a directory.
RelPaths == {<<>>} \cup {<<a>> : a \in Names} \cup {<<a, b>> : a \in Names, b \in Names}

Kinds == {"none", "file", "dir"}

Parent(p) == SubSeq(p, 1, Len(p) - 1)

IsPrefix(p, q) == Len(p) <= Len(q) /\ SubSeq(q, 1, Len(p)) = p

\* An entry exists only inside an existing directory.
WellFormed(t) == \A p \in RelPaths : (p # <<>> /\ t[p] # "none") => t[Parent(p)] = "dir"

Trees == {t \in [RelPaths -> Kinds] : WellFormed(t)}

DirTrees == {t \in Trees : t[<<>>] = "dir"}

EmptyDir == [p \in RelPaths |-> IF p = <<>> THEN "dir" ELSE "none"]

Absent == [p \in RelPaths |-> "none"]

\* The trees one filesystem call on a single entry can turn t into: an entry
\* is created in an existing directory, or an empty entry is removed.
TreeWrites(t) ==
    {t2 \in {[t EXCEPT ![p] = k] : p \in RelPaths, k \in Kinds} : t2 # t /\ WellFormed(t2)}

\* os.path.isdir
isdir(t, p) == t[p] = "dir"

RemoveSubtree(t, p) == [q \in RelPaths |-> IF IsPrefix(p, q) THEN "none" ELSE t[q]]

\* What a recursive delete that stopped part-way can leave below p: p itself is
\* still there, some of the entries below it are gone.
PartialDeletes(t, p) ==
    {t2 \in Trees : /\ t2[p] = "dir"
                    /\ \A q \in RelPaths : IF IsPrefix(p, q) THEN t2[q] \in {t[q], "none"}
                                                             ELSE t2[q] = t[q]}

\* shutil.rmtree(path) with the default ignore_errors=False: the first failure
\* is raised.  A missing path and a non-directory fail in os.listdir; a
\* directory is emptied and removed, or the delete stops at an entry the
\* process may not remove.
rmtree(t, p) ==
    CASE t[p] = "none" -> {[tree |-> t, err |-> "ENOENT"]}
      [] t[p] = "file" -> {[tree |-> t, err |-> "ENOTDIR"]}
      [] OTHER -> {[tree |-> RemoveSubtree(t, p), err |-> "none"]}
                    \cup {[tree |-> t2, err |-> "EACCES"] : t2 \in PartialDeletes(t, p)}

\* os.remove(path): removes one file.
remove(t, p) ==
    CASE t[p] = "none" -> {[tree |-> t, err |-> "ENOENT"]}
      [] t[p] = "dir"  -> {[tree |-> t, err |-> "EISDIR"]}
      [] OTHER -> {[tree |-> [t EXCEPT ![p] = "none"], err |-> "none"],
                   [tree |-> t, err |-> "EACCES"]}

\* What a recursive copy of src that met an error can leave at the destination.
PartialCopies(src) ==
    {t2 \in DirTrees : t2 # src /\ \A q \in RelPaths : t2[q] \in {src[q], "none"}}

\* shutil.copytree(src, dst) of one root onto another: os.listdir(src) fails
\* when src is no directory, os.makedirs(dst) fails when dst exists; the errors
\* of the individual copies are collected and raised at the end.
copytree(src, dst) ==
    CASE src[<<>>] # "dir" -> {[tree |-> dst, err |-> "ENOENT"]}
      [] dst[<<>>] # "none" -> {[tree |-> dst, err |-> "EEXIST"]}
      [] OTHER -> {[tree |-> src, err |-> "none"]}
                    \cup {[tree |-> t2, err |-> "Error"] : t2 \in PartialCopies(src)}

\* The errors above that are instances of OSError (shutil.Error included:
\* it derives from EnvironmentError, which except OSError does not catch).
OSErrors == {"ENOENT", "ENOTDIR", "EACCES", "EEXIST", "EISDIR"}

InitFs == [new_workspace |-> Absent, workspace_dir |-> EmptyDir]

Init ==
    /\ op = "idle"
    /\ pc = "idle"
    /\ args = <<>>
    /\ loc = <<>>
    /\ log = <<>>
    /\ result = None
    /\ fs = InitFs

\* The call has returned or raised; the caller goes on.
Return ==
    /\ pc = "returned"
    /\ op' = "idle"
    /\ pc' = "idle"
    /\ args' = <<>>
    /\ loc' = <<>>
    /\ log' = <<>>
    /\ result' = None
    /\ UNCHANGED fs

\* ------------------------------------------------------ sampledata.cleanup
\* Mutant of cleanup_outcomes: the isdir test is dropped, os.remove always.
cleanup_outcomes_always_remove(t, uri) == remove(t, uri)

\* cleanup(uri): the branch taken and what it leaves.
cleanup_outcomes(t, uri) ==
    IF isdir(t, uri) THEN rmtree(t, uri) ELSE remove(t, uri)

cleanup ==
    /\ op = "idle"
    /\ \E uri \in RelPaths : \E o \in cleanup_outcomes(fs.new_workspace, uri) :
        /\ op' = "cleanup"
        /\ pc' = "returned"
        /\ args' = [uri |-> uri]
        /\ loc' = [before |-> fs.new_workspace]
        /\ log' = <<>>
        /\ result' = IF o.err = "none" THEN Returned(None) ELSE Raised(o.err)
        /\ fs' = [fs EXCEPT !.new_workspace = o.tree]

\* --------------------------------------------------- utils.save_workspace
\* Whatever was saved at new_workspace before the decorated test runs, put
\* there one entry at a time.
EnvWriteTarget ==
    /\ op = "idle"
    /\ \E t \in TreeWrites(fs.new_workspace) : fs' = [fs EXCEPT !.new_workspace = t]
    /\ UNCHANGED <<op, pc, args, loc, log, result>>

\* except OSError: pass
save_workspace_ignores(err) == err \in OSErrors

\* Mutant of save_workspace_after: the workspace is saved before the test runs.
save_workspace_after_saves_first(step, err) ==
    CASE step = "call" -> "rmtree"
      [] step = "rmtree" -> IF err = "none" \/ save_workspace_ignores(err)
                            THEN "copytree" ELSE "raise"
      [] step = "copytree" -> IF err = "none" THEN "item" ELSE "raise"
      [] step = "item" -> IF err = "none" THEN "return" ELSE "raise"

\* Mutant of save_workspace_after: the save runs as a finally clause.
save_workspace_after_always_saves(step, err) ==
    CASE step = "call" -> "item"
      [] step = "item" -> "rmtree"
      [] step = "rmtree" -> IF err = "none" \/ save_workspace_ignores(err)
                            THEN "copytree" ELSE "raise"
      [] step = "copytree" -> IF err = "none" THEN "return" ELSE "raise"

\* The statement test_and_remove_workspace runs after `step` ended with err.
save_workspace_after(step, err) ==
    CASE step = "call" -> "item"
      [] step = "item" -> IF err = "none" THEN "rmtree" ELSE "raise"
      [] step = "rmtree" -> IF err = "none" \/ save_workspace_ignores(err)
                            THEN "copytree" ELSE "raise"
      [] step = "copytree" -> IF err = "none" THEN "return" ELSE "raise"

\* Where the wrapper stands after `step`, and what it has returned or raised.
SwNext(step, err) ==
    LET n == save_workspace_after(step, err)
    IN [pc |-> IF n \in {"raise", "return"} THEN "returned" ELSE n,
        result |-> CASE n = "raise" -> Raised(err) [] n = "return" -> Returned(None)
                     [] OTHER -> None]

call_save_workspace ==
    /\ op = "idle"
    /\ fs.workspace_dir[<<>>] = "dir"
    /\ op' = "save_workspace"
    /\ pc' = SwNext("call", "none").pc
    /\ args' = [new_workspace |-> "new_workspace"]
    /\ loc' = <<>>
    /\ log' = <<>>
    /\ result' = None
    /\ UNCHANGED fs

\* item(self), running: the test body writes an entry of its workspace.
sw_item_write ==
    /\ op = "save_workspace" /\ pc = "item"
    /\ \E t \in TreeWrites(fs.workspace_dir) :
        /\ t[<<>>] = "dir"
        /\ fs' = [fs EXCEPT !.workspace_dir = t]
    /\ UNCHANGED <<op, pc, args, loc, log, result>>

\* item(self), ending: the test body returns or raises.
sw_item ==
    /\ op = "save_workspace" /\ pc = "item"
    /\ \E e \in {"none", "AssertionError", "Exception"} :
        /\ log' = Append(log, [call |-> "item", err |-> e])
        /\ pc' = SwNext("item", e).pc
        /\ result' = SwNext("item", e).result
    /\ UNCHANGED <<op, args, loc, fs>>

\* shutil.rmtree(new_workspace)
sw_rmtree ==
    /\ op = "save_workspace" /\ pc = "rmtree"
    /\ \E o \in rmtree(fs.new_workspace, <<>>) :
        /\ fs' = [fs EXCEPT !.new_workspace = o.tree]
        /\ log' = Append(log, [call |-> "rmtree", err |-> o.err])
        /\ pc' = SwNext("rmtree", o.err).pc
        /\ result' = SwNext("rmtree", o.err).result
    /\ UNCHANGED <<op, args, loc>>

\* shutil.copytree(self.workspace_dir, new_workspace)
sw_copytree ==
    /\ op = "save_workspace" /\ pc = "copytree"
    /\ \E o \in copytree(fs.workspace_dir, fs.new_workspace) :
        /\ fs' = [fs EXCEPT !.new_workspace = o.tree]
        /\ log' = Append(log, [call |-> "copytree", err |-> o.err])
        /\ pc' = SwNext("copytree", o.err).pc
        /\ result' = SwNext("copytree", o.err).result
    /\ UNCHANGED <<op, args, loc>>

NextFS ==
    \/ EnvWriteTarget
    \/ cleanup
    \/ call_save_workspace
    \/ sw_item_write
    \/ sw_item
    \/ sw_rmtree
    \/ sw_copytree
    \/ Return

SpecFS == Init /\ [][NextFS]_vars

\* ================================================================ sampledata.py
\* Largest absolute value of a pixel size or an origin coordinate.
MaxCoord == 1

Coords == (0 - MaxCoord)..MaxCoord

Wkts == {"_COLOMBIA_SRS", "WGS84"}

\* Mutant of make_geotransform: the last two coefficients change places.
make_geotransform_swapped(x_len, y_len, origin) ==
    <<origin[1], x_len, 0, origin[2], y_len, 0>>

\* make_geotransform(x_len, y_len, origin); origin[0], origin[1] are the
\* first and second component of the origin pair.
make_geotransform(x_len, y_len, origin) ==
    <<origin[1], x_len, 0, origin[2], 0, y_len>>

\* build_srs(srs_wkt, x_len, y_len, origin): the CoordSystem named tuple.
build_srs(srs_wkt, x_len, y_len, origin) ==
    LET geotransform == make_geotransform(x_len, y_len, origin)
    IN [wkt |-> srs_wkt, origin |-> origin, geotransform |-> geotransform]

call_make_geotransform ==
    /\ op = "idle"
    /\ \E x_len \in Coords, y_len \in Coords, origin \in Coords \X Coords :
        /\ args' = [x_len |-> x_len, y_len |-> y_len, origin |-> origin]
        /\ result' = Returned(make_geotransform(x_len, y_len, origin))
    /\ op' = "make_geotransform"
    /\ pc' = "returned"
    /\ UNCHANGED <<loc, log, fs>>

call_build_srs ==
    /\ op = "idle"
    /\ \E srs_wkt \in Wkts, x_len \in Coords, y_len \in Coords, origin \in Coords \X Coords :
        /\ args' = [srs_wkt |-> srs_wkt, x_len |-> x_len, y_len |-> y_len, origin |-> origin]
        /\ result' = Returned(build_srs(srs_wkt, x_len, y_len, origin))
    /\ op' = "build_srs"
    /\ pc' = "returned"
    /\ UNCHANGED <<loc, log, fs>>

\* ---------------------------------------------------------------- raster
\* Element types a numpy grid may have; numpy.byte is numpy.int8.
DTypes == {"int8", "uint8", "int16", "uint16", "int32", "uint32", "int64",
           "float32", "float64", "bool"}

\* GDAL_TYPES: numpy element type -> GDAL pixel type.
GDAL_TYPES ==
    [t \in {"int8", "int16", "int32", "uint16", "uint32", "float32", "float64"} |->
        CASE t = "int8"    -> "GDT_Byte"
          [] t = "int16"   -> "GDT_Int16"
          [] t = "int32"   -> "GDT_Int32"
          [] t = "uint16"  -> "GDT_UInt16"
          [] t = "uint32"  -> "GDT_UInt32"
          [] t = "float32" -> "GDT_Float32"
          [] t = "float64" -> "GDT_Float64"]

\* Signedness and width of a numpy element type.
NumpyKind(t) ==
    CASE t = "int8"    -> <<"signed", 8>>
      [] t = "uint8"   -> <<"unsigned", 8>>
      [] t = "int16"   -> <<"signed", 16>>
      [] t = "uint16"  -> <<"unsigned", 16>>
      [] t = "int32"   -> <<"signed", 32>>
      [] t = "uint32"  -> <<"unsigned", 32>>
      [] t = "int64"   -> <<"signed", 64>>
      [] t = "float32" -> <<"float", 32>>
      [] t = "float64" -> <<"float", 64>>
      [] t = "bool"    -> <<"bool", 8>>

\* Signedness and width of a GDAL pixel type; GDT_Byte is the unsigned byte.
GdalKind(g) ==
    CASE g = "GDT_Byte"    -> <<"unsigned", 8>>
      [] g = "GDT_Int16"   -> <<"signed", 16>>
      [] g = "GDT_Int32"   -> <<"signed", 32>>
      [] g = "GDT_UInt16"  -> <<"unsigned", 16>>
      [] g = "GDT_UInt32"  -> <<"unsigned", 32>>
      [] g = "GDT_Float32" -> <<"float", 32>>
      [] g = "GDT_Float64" -> <<"float", 64>>

\* Largest number of rows or columns of a grid.
MaxDim == 2

\* raster(pixels, nodata, reference, filename): the calls made and the value
\* returned or the exception raised.
raster_run(a) ==
    LET made == IF a.filename = None THEN <<[call |-> "mkstemp"]>> ELSE <<>>
        out_uri == IF a.filename = None THEN "tmp.tif" ELSE a.filename
    IN IF a.dtype \notin DOMAIN GDAL_TYPES
       THEN [result |-> Raised("KeyError"), log |-> made]
       ELSE [result |-> Returned(out_uri),
             log |-> made \o
                <<[call |-> "Create", uri |-> out_uri, n_cols |-> a.n_cols,
                   n_rows |-> a.n_rows, bands |-> 1, datatype |-> GDAL_TYPES[a.dtype]],
                  [call |-> "SetProjection", wkt |-> a.reference.wkt],
                  [call |-> "SetGeoTransform", geotransform |-> a.reference.geotransform],
                  [call |-> "SetNoDataValue", nodata |-> a.nodata],
                  [call |-> "WriteArray", xoff |-> 0, yoff |-> 0]>>]

raster ==
    /\ op = "idle"
    /\ \E dtype \in DTypes, n_rows \in 1..MaxDim, n_cols \in 1..MaxDim,
          filename \in {None, "out.tif"} :
        LET a == [dtype |-> dtype, n_rows |-> n_rows, n_cols |-> n_cols,
                  nodata |-> 0 - 1, filename |-> filename,
                  reference |-> build_srs("_COLOMBIA_SRS", 1, 0 - 1, <<0, 0>>)]
        IN /\ args' = a
           /\ log' = raster_run(a).log
           /\ result' = raster_run(a).result
    /\ op' = "raster"
    /\ pc' = "returned"
    /\ UNCHANGED <<loc, fs>>

\* ---------------------------------------------------------------- vector
\* Largest number of geometries in one call.
MaxGeoms == 2

\* VECTOR_FIELD_TYPES: python type -> OGR field type.
VECTOR_FIELD_TYPES ==
    [t \in {"str", "float", "int"} |->
        CASE t = "str" -> "OFTString" [] t = "float" -> "OFTReal" [] t = "int" -> "OFTInteger"]

\* An attribute mapping is given by the set of its field names.
AttrMaps == {{}, {"id"}}

FeatureLists == UNION {[1..n -> AttrMaps] : n \in 0..MaxGeoms}

\* A fields mapping is a set of <<name, python type>> pairs.
FieldMaps == {{}, {<<"id", "int">>}, {<<"id", "list">>}}

\* Mutant of vector_default_features: the default is the empty list.
vector_default_features_empty(geometries, features) ==
    IF features = NoArg THEN <<>> ELSE ValueOf(features)

\* features = [{} for _ in range(len(geometries))] when features is None
vector_default_features(geometries, features) ==
    IF features = NoArg THEN [i \in 1..Len(geometries) |-> {}] ELSE ValueOf(features)

RECURSIVE vector_features_log(_, _, _)
\* for shapely_feature, fields in zip(geometries, features): one feature each
vector_features_log(geometries, features, i) ==
    IF i > Len(geometries) \/ i > Len(features) THEN <<>>
    ELSE <<[call |-> "CreateFeature", geometry |-> geometries[i], set |-> features[i]]>>
            \o vector_features_log(geometries, features, i + 1)

\* vector(geometries, reference, fields, features, vector_format, filename):
\* the calls made and the value returned or the exception raised.
vector_run(a) ==
    LET fields == IF a.fields = NoArg THEN {} ELSE ValueOf(a.fields)
        features == vector_default_features(a.geometries, a.features)
        ext == IF a.vector_format = "GeoJSON" THEN "geojson" ELSE "shp"
        temp == IF a.filename = NoArg THEN <<[call |-> "mkdtemp"]>> ELSE <<>>
        vector_uri == IF a.filename = NoArg THEN <<"tmpdir", "shapefile", ext>>
                      ELSE ValueOf(a.filename)
        opened == temp \o <<[call |-> "CreateDataSource", uri |-> vector_uri,
                             driver |-> a.vector_format],
                            [call |-> "CreateLayer", name |-> vector_uri[2]]>>
        unmapped == {f \in fields : f[2] \notin DOMAIN VECTOR_FIELD_TYPES}
        created == IF fields = {} THEN <<>>
                   ELSE LET f == CHOOSE f \in fields : TRUE
                        IN <<[call |-> "CreateField", name |-> f[1],
                              type |-> VECTOR_FIELD_TYPES[f[2]]]>>
    IN IF Len(a.geometries) # Len(features)
       THEN [result |-> Raised("AssertionError"), log |-> <<>>]
       ELSE IF unmapped # {}
       THEN [result |-> Raised("KeyError"), log |-> opened]
       ELSE [result |-> Returned(vector_uri),
             log |-> opened \o created \o vector_features_log(a.geometries, features, 1)]

vector ==
    /\ op = "idle"
    /\ \E n \in 0..MaxGeoms, features \in {NoArg} \cup {Given(f) : f \in FeatureLists},
          fields \in {NoArg} \cup {Given(f) : f \in FieldMaps},
          vector_format \in {"GeoJSON", "ESRI Shapefile"},
          filename \in {NoArg, Given(<<"dir", "out", "shp">>)} :
        LET a == [geometries |-> [i \in 1..n |-> i], features |-> features,
                  fields |-> fields, vector_format |-> vector_format,
                  filename |-> filename]
        IN /\ args' = a
           /\ log' = vector_run(a).log
           /\ result' = vector_run(a).result
    /\ op' = "vector"
    /\ pc' = "returned"
    /\ UNCHANGED <<loc, fs>>

\* ===================================================================== utils.py
\* ---------------------------------------------------------------- get_hash
\* block_size = 2**20, scaled down so that files of several blocks stay small.
block_size == 2

\* Longest file, in bytes.
MaxFileLen == 5

Bytes == {0, 1}

Files == UNION {[1..n -> Bytes] : n \in 0..MaxFileLen}

Min(a, b) == IF a < b THEN a ELSE b

RECURSIVE md5_update(_, _)
\* md5.update(data): the digest state folds in the bytes of data one by one.
md5_update(h, data) ==
    IF data = <<>> THEN h
    ELSE md5_update((h * 31 + Head(data) + 1) % 65536, Tail(data))

\* file_handler.read(block_size) at offset pos
read(content, pos, n) == SubSeq(content, pos + 1, Min(pos + n, Len(content)))

\* Mutant of get_hash_goes_on: the loop also ends, before the update, on a
\* read shorter than a block.
get_hash_stops_on_short_read(data) == Len(data) = block_size

\* if not data: break
get_hash_goes_on(data) == data # <<>>

call_get_hash ==
    /\ op = "idle"
    /\ \E content \in Files : args' = [content |-> content]
    /\ op' = "get_hash"
    /\ pc' = "loop"
    /\ loc' = [pos |-> 0, md5 |-> 0]
    /\ log' = <<>>
    /\ result' = None
    /\ UNCHANGED fs

\* One pass of the while loop: read, test, update; or break and return.
gh_loop ==
    /\ op = "get_hash" /\ pc = "loop"
    /\ LET data == read(args.content, loc.pos, block_size)
       IN /\ log' = Append(log, [call |-> "read", n |-> Len(data)])
          /\ IF get_hash_goes_on(data)
             THEN /\ loc' = [pos |-> loc.pos + Len(data), md5 |-> md5_update(loc.md5, data)]
                  /\ pc' = "loop"
                  /\ result' = None
             ELSE /\ loc' = loc
                  /\ pc' = "returned"
                  /\ result' = Returned(loc.md5)
    /\ UNCHANGED <<op, args, fs>>

\* -------------------------------------------------------------- regression
Archives == {<<"in", ".tar.gz">>, <<"out", ".tar.gz">>}

\* Mutant of regression_after: the comparison runs whether or not the test
\* body raised.
regression_after_always_compares(step, err) ==
    CASE step = "call" -> "temporary_folder"
      [] step = "temporary_folder" -> "extract_parameters_archive"
      [] step = "extract_parameters_archive" -> IF err = "none" THEN "item" ELSE "raise"
      [] step = "item" -> "temporary_folder2"
      [] step = "temporary_folder2" -> "extract_archive"
      [] step = "extract_archive" -> IF err = "none" THEN "assertWorkspace" ELSE "raise"
      [] step = "assertWorkspace" -> IF err = "none" THEN "return" ELSE "raise"

\* The statement test_and_assert_workspace runs after `step` ended with err.
regression_after(step, err) ==
    CASE step = "call" -> "temporary_folder"
      [] step = "temporary_folder" -> "extract_parameters_archive"
      [] step = "extract_parameters_archive" -> IF err = "none" THEN "item" ELSE "raise"
      [] step = "item" -> IF err = "none" THEN "temporary_folder2" ELSE "raise"
      [] step = "temporary_folder2" -> "extract_archive"
      [] step = "extract_archive" -> IF err = "none" THEN "assertWorkspace" ELSE "raise"
      [] step = "assertWorkspace" -> IF err = "none" THEN "return" ELSE "raise"

RgNext(step, err) ==
    LET n == regression_after(step, err)
    IN [pc |-> IF n \in {"raise", "return"} THEN "returned" ELSE n,
        result |-> CASE n = "raise" -> Raised(err) [] n = "return" -> Returned(None)
                     [] OTHER -> None]

\* pygeoprocessing.geoprocessing.temporary_folder(): a folder not handed out before.
temporary_folder(made) == made + 1

call_regression ==
    /\ op = "idle"
    /\ \E input_archive \in Archives, workspace_archive \in Archives :
        args' = [input_archive |-> input_archive, workspace_archive |-> workspace_archive]
    /\ op' = "regression"
    /\ pc' = RgNext("call", "none").pc
    /\ loc' = [made |-> 0, workspace |-> None, archived_workspace |-> None, self_args |-> None]
    /\ log' = <<>>
    /\ result' = None
    /\ UNCHANGED fs

\* workspace = temporary_folder()
rg_temporary_folder ==
    /\ op = "regression" /\ pc = "temporary_folder"
    /\ LET w == temporary_folder(loc.made)
       IN /\ loc' = [loc EXCEPT !.made = w, !.workspace = w]
          /\ log' = Append(log, [call |-> "temporary_folder", a |-> <<>>, err |-> "none"])
    /\ pc' = RgNext("temporary_folder", "none").pc
    /\ UNCHANGED <<op, args, result, fs>>

\* self.args = data_storage.extract_parameters_archive(workspace, input_archive)
rg_extract_parameters_archive ==
    /\ op = "regression" /\ pc = "extract_parameters_archive"
    /\ \E e \in {"none", "IOError"} :
        /\ loc' = IF e = "none"
                  THEN [loc EXCEPT !.self_args = [workspace_dir |-> loc.workspace,
                                                  archive |-> args.input_archive]]
                  ELSE loc
        /\ log' = Append(log, [call |-> "extract_parameters_archive",
                               a |-> <<loc.workspace, args.input_archive>>, err |-> e])
        /\ pc' = RgNext("extract_parameters_archive", e).pc
        /\ result' = RgNext("extract_parameters_archive", e).result
    /\ UNCHANGED <<op, args, fs>>

\* item(self)
rg_item ==
    /\ op = "regression" /\ pc = "item"
    /\ \E e \in {"none", "AssertionError", "Exception"} :
        /\ log' = Append(log, [call |-> "item", a |-> <<loc.self_args>>, err |-> e])
        /\ pc' = RgNext("item", e).pc
        /\ result' = RgNext("item", e).result
    /\ UNCHANGED <<op, args, loc, fs>>

\* archived_workspace = temporary_folder()
rg_temporary_folder2 ==
    /\ op = "regression" /\ pc = "temporary_folder2"
    /\ LET w == temporary_folder(loc.made)
       IN /\ loc' = [loc EXCEPT !.made = w, !.archived_workspace = w]
          /\ log' = Append(log, [call |-> "temporary_folder", a |-> <<>>, err |-> "none"])
    /\ pc' = RgNext("temporary_folder2", "none").pc
    /\ UNCHANGED <<op, args, result, fs>>

\* data_storage.extract_archive(archived_workspace, workspace_archive)
rg_extract_archive ==
    /\ op = "regression" /\ pc = "extract_archive"
    /\ \E e \in {"none", "IOError"} :
        /\ log' = Append(log, [call |-> "extract_archive",
                               a |-> <<loc.archived_workspace, args.workspace_archive>>,
                               err |-> e])
        /\ pc' = RgNext("extract_archive", e).pc
        /\ result' = RgNext("extract_archive", e).result
    /\ UNCHANGED <<op, args, loc, fs>>

\* self.assertWorkspace(workspace, archived_workspace)
rg_assertWorkspace ==
    /\ op = "regression" /\ pc = "assertWorkspace"
    /\ \E e \in {"none", "AssertionError"} :
        /\ log' = Append(log, [call |-> "assertWorkspace",
                               a |-> <<loc.workspace, loc.archived_workspace>>, err |-> e])
        /\ pc' = RgNext("assertWorkspace", e).pc
        /\ result' = RgNext("assertWorkspace", e).result
    /\ UNCHANGED <<op, args, loc, fs>>

\* ----------------------------------------------- build_regression_archives
\* The names bound in the module's namespace: its imports, LOGGER and its
\* four functions.
ModuleNames == {"hashlib", "functools", "shutil", "logging", "pygeoprocessing",
                "data_storage", "LOGGER", "get_hash", "save_workspace", "regression",
                "build_regression_archives"}

\* A path is the sequence of its stem and its suffixes.
ArchivePaths == {<<"archive", ".tar.gz">>, <<"archive", ".zip">>, <<"archive">>}

\* if uri[-7:] == '.tar.gz': uri = uri[:-7]
strip_tar_gz(uri) ==
    IF Len(uri) > 0 /\ uri[Len(uri)] = ".tar.gz" THEN SubSeq(uri, 1, Len(uri) - 1) ELSE uri

\* build_regression_archives(file_uri, input_archive_uri, output_archive_uri):
\* the calls made and the value returned or the exception raised.  A global
\* name that the module does not bind raises NameError where it is first read.
build_regression_archives_run(a) ==
    LET workspace == temporary_folder(0)
        input_archive == strip_tar_gz(a.input_archive_uri)
        archive_uri == strip_tar_gz(a.output_archive_uri)
        model_args == [workspace_dir |-> workspace,
                       archive |-> input_archive \o <<".tar.gz">>]
        read_config == <<[call |-> "JSONHandler", a |-> <<a.file_uri>>],
                         [call |-> "get_attributes", a |-> <<>>]>>
        rest == <<[call |-> "locate_module", a |-> <<"model">>],
                  [call |-> "temporary_folder", a |-> <<>>],
                  [call |-> "collect_parameters",
                   a |-> <<[workspace_dir |-> workspace], input_archive>>],
                  [call |-> "extract_parameters_archive",
                   a |-> <<workspace, input_archive \o <<".tar.gz">>>>],
                  [call |-> "execute", a |-> <<model_args>>],
                  [call |-> "make_archive",
                   a |-> <<archive_uri, "gztar", workspace>>]>>
    IN IF "fileio" \notin ModuleNames THEN [result |-> Raised("NameError"), log |-> <<>>]
       ELSE IF "executor" \notin ModuleNames
       THEN [result |-> Raised("NameError"), log |-> read_config]
       ELSE [result |-> Returned(None), log |-> read_config \o rest]

build_regression_archives ==
    /\ op = "idle"
    /\ \E input_archive_uri \in ArchivePaths, output_archive_uri \in ArchivePaths :
        LET a == [file_uri |-> "config.json", input_archive_uri |-> input_archive_uri,
                  output_archive_uri |-> output_archive_uri]
        IN /\ args' = a
           /\ log' = build_regression_archives_run(a).log
           /\ result' = build_regression_archives_run(a).result
    /\ op' = "build_regression_archives"
    /\ pc' = "returned"
    /\ UNCHANGED <<loc, fs>>

Next ==
    \/ call_make_geotransform
    \/ call_build_srs
    \/ raster
    \/ vector
    \/ call_get_hash
    \/ gh_loop
    \/ call_regression
    \/ rg_temporary_folder
    \/ rg_extract_parameters_archive
    \/ rg_item
    \/ rg_temporary_folder2
    \/ rg_extract_archive
    \/ rg_assertWorkspace
    \/ build_regression_archives
    \/ Return

Spec == Init /\ [][Next]_vars

\* ------------------------------------------------------------ claims (SpecFS)
HasCall(name) == \E i \in DOMAIN log : log[i].call = name

C4_OtherDeleteFailuresPropagate ==
    op = "save_workspace" =>
        \A i \in DOMAIN log :
            (log[i].call = "rmtree" /\ log[i].err \notin {"none", "ENOENT"})
                => /\ ~HasCall("copytree")
                   /\ pc = "returned" /\ result.raised = log[i].err

\* C6: cleanup(uri) on an existing directory removes the directory and all
\* beneath it, on an existing non-directory removes exactly that file, and on
\* a missing path raises the not-found error and changes nothing; the only
\* other outcome is a deletion the operating system refuses, which is raised.
C6_Cleanup ==
    (op = "cleanup" /\ pc = "returned") =>
        LET b == loc.before
            u == args.uri
            t == fs.new_workspace
        IN /\ b[u] = "dir" =>
                \/ result.raised = "none" /\ t = RemoveSubtree(b, u)
                \/ result.raised = "EACCES"
           /\ b[u] = "file" =>
                \/ result.raised = "none" /\ t = [b EXCEPT ![u] = "none"]
                \/ result.raised = "EACCES" /\ t = b
           /\ b[u] = "none" => (result.raised = "ENOENT" /\ t = b)

\* cleanup of a directory that held a subdirectory with a file in it.
C6_Witness ==
    /\ op = "cleanup" /\ pc = "returned" /\ result.raised = "none"
    /\ loc.before[args.uri] = "dir"
    /\ \E p \in RelPaths : /\ IsPrefix(args.uri, p) /\ Len(p) = Len(args.uri) + 1
                           /\ loc.before[p] # "none"
    /\ \A p \in RelPaths : IsPrefix(args.uri, p) => fs.new_workspace[p] = "none"

\* C10: if the test body wrapped by save_workspace raises, the wrapper raises
\* the same exception at once: neither the delete nor the copy runs and the
\* target directory is as it was.
C10_BodyRaiseSkipsSave ==
    [][(op = "save_workspace" /\ pc = "item")
        => /\ fs'.new_workspace = fs.new_workspace
           /\ (Len(log') > Len(log) /\ log'[Len(log')].err # "none")
                => /\ pc' = "returned"
                   /\ result'.raised = log'[Len(log')].err
                   /\ ~(\E i \in DOMAIN log' : log'[i].call \in {"rmtree", "copytree"})]_vars

\* A run whose body raised while the target held earlier contents.
C10_Witness ==
    /\ op = "save_workspace" /\ pc = "returned" /\ result.raised = "AssertionError"
    /\ fs.new_workspace[<<>>] = "dir"
    /\ \E p \in RelPaths : p # <<>> /\ fs.new_workspace[p] # "none"

\* -------------------------------------------------------------- claims (Spec)
\* C1: make_geotransform returns exactly the six-element list
\* [origin_x, pixel_width, 0, origin_y, 0, pixel_height], and build_srs returns
\* a CoordSystem with that geotransform and with the wkt and the origin it was
\* given.
C1_Geotransform ==
    /\ (op = "make_geotransform" /\ pc = "returned") =>
        /\ result.raised = "none"
        /\ Len(result.value) = 6
        /\ result.value = <<args.origin[1], args.x_len, 0, args.origin[2], 0, args.y_len>>
    /\ (op = "build_srs" /\ pc = "returned") =>
        /\ result.raised = "none"
        /\ result.value.geotransform =
                <<args.origin[1], args.x_len, 0, args.origin[2], 0, args.y_len>>
        /\ result.value.wkt = args.srs_wkt
        /\ result.value.origin = args.origin

\* build_srs of a north-up system whose four numbers all differ from 0 and
\* whose width, height and origin components are told apart.
C1_Witness ==
    /\ op = "build_srs" /\ pc = "returned"
    /\ args.x_len > 0 /\ args.y_len < 0
    /\ args.origin[1] < 0 /\ args.origin[2] > 0

RegressionOrder ==
    <<"temporary_folder", "extract_parameters_archive", "item", "temporary_folder",
      "extract_archive", "assertWorkspace">>

\* C2: the regression wrapper makes its calls in the fixed order: a fresh
\* workspace, the input archive unpacked into it and assigned to self.args, the
\* test body, a second and different fresh workspace, the expected-output
\* archive unpacked into that, self.assertWorkspace(first, second).  A step
\* that raises is the last one, so the comparison never runs before the body
\* has finished, nor after the body or an extraction raised.
C2_RegressionOrder ==
    op = "regression" =>
        /\ Len(log) <= Len(RegressionOrder)
        /\ \A i \in DOMAIN log : log[i].call = RegressionOrder[i]
        /\ \A i \in DOMAIN log : i < Len(log) => log[i].err = "none"
        /\ Len(log) >= 2 => log[2].a = <<loc.workspace, args.input_archive>>
        /\ Len(log) >= 3 => log[3].a = <<[workspace_dir |-> loc.workspace,
                                          archive |-> args.input_archive]>>
        /\ Len(log) >= 4 => loc.archived_workspace # loc.workspace
        /\ Len(log) >= 5 => log[5].a = <<loc.archived_workspace, args.workspace_archive>>
        /\ Len(log) >= 6 => log[6].a = <<loc.workspace, loc.archived_workspace>>
        /\ pc = "returned" =>
            /\ result.raised = log[Len(log)].err
            /\ result.raised = "none" => Len(log) = Len(RegressionOrder)

\* A run in which every step succeeded and the comparison was made, on two
\* different archives.
C2_Witness ==
    /\ op = "regression" /\ pc = "returned" /\ result.raised = "none"
    /\ Len(log) = Len(RegressionOrder)
    /\ args.input_archive # args.workspace_archive

\* C5: vector() given a features list whose length differs from that of
\* geometries fails with the assertion (shape-mismatch) error before it has
\* created a temporary directory, a data source, a layer or a feature; with
\* features left out the default is one empty mapping per geometry and the
\* check passes.
C5_VectorShapeCheck ==
    (op = "vector" /\ pc = "returned") =>
        /\ (args.features # NoArg /\ Len(ValueOf(args.features)) # Len(args.geometries))
            => (result.raised = "AssertionError" /\ log = <<>>)
        /\ args.features = NoArg =>
            /\ result.raised # "AssertionError"
            /\ result.raised = "none" =>
                Cardinality({i \in DOMAIN log : log[i].call = "CreateFeature"})
                    = Len(args.geometries)

\* A mismatching call with no filename, which would otherwise have made a
\* temporary directory.
C5_Witness ==
    /\ op = "vector" /\ pc = "returned" /\ result.raised = "AssertionError"
    /\ args.filename = NoArg /\ args.features # NoArg
    /\ Len(args.geometries) > 0

\* The element types the type table is said to cover.
ClaimedTypes == {"int8", "uint8", "int16", "uint16", "int32", "uint32", "float32", "float64"}

\* C7: raster() maps signed and unsigned 8-, 16- and 32-bit integer grids and
\* 32- and 64-bit float grids to the pixel type of the same signedness and
\* width; any other element type raises the unsupported-type error and the
\* driver creates no dataset.
C7_TypeTable ==
    (op = "raster" /\ pc = "returned") =>
        /\ args.dtype \in ClaimedTypes =>
            /\ result.raised = "none"
            /\ \E i \in DOMAIN log : /\ log[i].call = "Create"
                                     /\ GdalKind(log[i].datatype) = NumpyKind(args.dtype)
        /\ args.dtype \notin ClaimedTypes =>
            /\ result.raised = "KeyError"
            /\ ~(\E i \in DOMAIN log : log[i].call = "Create")

BuildOrder ==
    <<"JSONHandler", "get_attributes", "locate_module", "temporary_folder",
      "collect_parameters", "extract_parameters_archive", "execute", "make_archive">>

\* C8: build_regression_archives completes, having in this order set the
\* workspace to a fresh temporary directory, packed the inputs into an archive
\* at input_archive_uri, re-extracted that archive into the workspace, executed
\* the model with the re-extracted arguments and compressed the workspace into
\* an archive at output_archive_uri.
C8_BuildCompletes ==
    (op = "build_regression_archives" /\ pc = "returned") =>
        /\ result.raised = "none"
        /\ [i \in DOMAIN log |-> log[i].call] = BuildOrder
        /\ log[6].a[2] = args.input_archive_uri
        /\ log[7].a[1].archive = log[6].a[2]
        /\ log[8].a[1] \o <<".tar.gz">> = args.output_archive_uri

\* C9: get_hash reads blocks of at most block_size bytes, goes on exactly while
\* a read returns data, makes at most one read per block plus the empty one,
\* and returns the digest of the file's whole byte sequence.
C9_GetHash ==
    op = "get_hash" =>
        /\ \A i \in DOMAIN log : log[i].n <= block_size
        /\ \A i \in DOMAIN log : i < Len(log) => log[i].n > 0
        /\ Len(log) <= (Len(args.content) + block_size - 1) \div block_size + 1
        /\ pc = "returned" =>
            /\ result.raised = "none"
            /\ result.value = md5_update(0, args.content)
            /\ log[Len(log)].n = 0

\* A file of several whole blocks, hashed to the end.
C9_Witness ==
    /\ op = "get_hash" /\ pc = "returned"
    /\ Len(args.content) > block_size
    /\ Len(args.content) % block_size = 0

\* A file that ends in a partial block, hashed to the end.
C9_WitnessPartial ==
    /\ op = "get_hash" /\ pc = "returned"
    /\ Len(args.content) > block_size
    /\ Len(args.content) % block_size # 0

====
